---------------------------- MODULE Spec2Model ----------------------------
(***************************************************************************)
(* Model of src/main.py (Pella CRO Self-Service Test Builder): the sizing  *)
(* functions sample_size_per_variant and estimate_duration_weeks, the      *)
(* EASIER rubric total, the session catalog, the catalog row built by      *)
(* to_catalog_row, and the validation run of validate_block.               *)
(*                                                                         *)
(* Numbers.  The code computes in IEEE doubles; the model computes in      *)
(* fixed point.  Rates (baseline_cr, mde_abs, alpha, power) are integers   *)
(* in units of 1/ProbUnit, normal quantiles in units of 1/ZUnit, square    *)
(* roots in units of 1/SqrtUnit, the bracketed sum in units of 1/NumUnit.  *)
(* Every arithmetic step of the code has its own step here, rounded to the *)
(* unit of its result.                                                     *)
(***************************************************************************)
EXTENDS Integers, Sequences, FiniteSets, TLC

VARIABLES
    ss_in,      \* arguments of the latest sample_size_per_variant call
    ss_out,     \* what that call handed back to its caller
    ss_prev,    \* the call before it: [in, out], or NoCall
    ss_calls,   \* number of calls made so far
    dur_in,     \* arguments of the estimate_duration_weeks call
    dur_out,    \* what that call handed back
    rb_in,      \* the mapping handed to easier_total
    rb_out,     \* what easier_total handed back
    session_state,  \* st.session_state: the keys set so far and their values
    heap,       \* the mutable objects of the live specification, by name
    add_log,    \* history: per add_to_catalog call, the row it appended
                \* and how that row read at the time
    row_in,     \* the objects handed to to_catalog_row, form_data among them
    row_out,    \* the row to_catalog_row handed back
    form_like,  \* the two lists catalog_page rebuilds from that row
    vb_in,      \* what validate_block is run with: the form and its widgets
    vb_out      \* how that run ended

sizeVars == <<ss_in, ss_out, ss_prev, ss_calls>>
durVars == <<dur_in, dur_out>>
rubricVars == <<rb_in, rb_out>>
sessionVars == <<session_state, heap, add_log>>
rowVars == <<row_in, row_out, form_like>>
validateVars == <<vb_in, vb_out>>
vars == <<sizeVars, durVars, rubricVars, sessionVars, rowVars, validateVars>>

---------------------------------------------------------------------------
(* Outcomes of a Python call: a value, None, or an exception leaving it.   *)

NoneVal == [kind |-> "None"]
Value(v) == [kind |-> "value", val |-> v]
Raise(exc) == [kind |-> "raise", exc |-> exc]
Pending == [kind |-> "pending"]
NoCall == [kind |-> "nocall"]
NoArgs == [kind |-> "noargs"]

IsValue(o) == o.kind = "value"
IsRaise(o) == o.kind = "raise"

---------------------------------------------------------------------------
(* Units of the fixed-point arithmetic.                                    *)

\* rates: the step of the form's rate inputs, 0.001
ProbUnit == 1000
ZUnit == ProbUnit
SqrtUnit == 20 * ProbUnit
NumUnit == 5 * ProbUnit

Abs(x) == IF x < 0 THEN -x ELSE x

\* x / y rounded to the nearest integer, halves away from zero (y > 0)
RoundDiv(x, y) ==
    IF x >= 0 THEN (2 * x + y) \div (2 * y) ELSE -((2 * (-x) + y) \div (2 * y))

\* math.ceil(x / y) for y > 0
CeilDiv(x, y) == -((-x) \div y)

RECURSIVE IsqrtIter(_, _, _)
IsqrtIter(x, lo, hi) ==
    IF hi - lo <= 1 THEN lo
    ELSE LET mid == (lo + hi) \div 2
         IN  IF mid * mid <= x THEN IsqrtIter(x, mid, hi)
                               ELSE IsqrtIter(x, lo, mid)

\* math.sqrt: ValueError on a negative argument; x is in units of
\* 1/SqrtUnit^2, the root in units of 1/SqrtUnit
math_sqrt(x) ==
    IF x < 0 THEN Raise("ValueError") ELSE Value(IsqrtIter(x, 0, 2 * SqrtUnit))

---------------------------------------------------------------------------
(* statistics.NormalDist().inv_cdf, tabulated at the probabilities the     *)
(* model's alpha and power grids ask for.  The argument q2 is a            *)
(* probability in units of 1/(2*ProbUnit) (alpha is halved); the quantile  *)
(* is in units of 1/ZUnit.  Outside (0,1) the library raises               *)
(* StatisticsError.                                                        *)

InvCdfTable ==
    (1 :> -3291) @@ (2 :> -3090) @@ (20 :> -2326) @@ (50 :> -1960) @@
    (200 :> -1282) @@ (400 :> -842) @@ (500 :> -674) @@ (1000 :> 0) @@
    (1500 :> 674) @@ (1600 :> 842) @@ (1800 :> 1282) @@ (1950 :> 1960) @@
    (1980 :> 2326) @@ (1998 :> 3090) @@ (1999 :> 3291)

inv_cdf(q2) ==
    IF q2 <= 0 \/ q2 >= 2 * ProbUnit THEN Raise("StatisticsError")
    ELSE Value(InvCdfTable[q2])

\* line 91: NormalDist().inv_cdf(1 - alpha/2)
z_alpha_2(alpha) == inv_cdf(2 * ProbUnit - alpha)

\* a slip that passes beta = 1 - power where power belongs
z_beta_of_beta(power) == inv_cdf(2 * ProbUnit - 2 * power)

\* line 92: NormalDist().inv_cdf(power)
z_beta(power) == inv_cdf(2 * power)

---------------------------------------------------------------------------
(* sample_size_per_variant, lines 88-102.                                  *)

\* the guard with its bounds on p1 taken as inclusive
FeasibilityGuardFails_inclusive(p1, p2, mde_abs) ==
    p2 < 0 \/ p2 > ProbUnit \/ p1 < 0 \/ p1 > ProbUnit \/ mde_abs <= 0

\* line 95: if p2 < 0 or p2 > 1 or p1 <= 0 or p1 >= 1 or mde_abs <= 0
FeasibilityGuardFails(p1, p2, mde_abs) ==
    p2 < 0 \/ p2 > ProbUnit \/ p1 <= 0 \/ p1 >= ProbUnit \/ mde_abs <= 0

\* line 98, first root: math.sqrt(2 * p_bar * (1 - p_bar)), with
\* p_bar = (p1 + p2) / 2 (line 97)
SqrtPooled(p1, p2) ==
    math_sqrt((p1 + p2) * (2 * ProbUnit - p1 - p2)
              * ((SqrtUnit * SqrtUnit) \div (2 * ProbUnit * ProbUnit)))

\* line 98, second root: math.sqrt(p1*(1-p1) + p2*(1-p2))
SqrtUnpooled(p1, p2) ==
    math_sqrt((p1 * (ProbUnit - p1) + p2 * (ProbUnit - p2))
              * ((SqrtUnit * SqrtUnit) \div (ProbUnit * ProbUnit)))

\* line 98: num = z_alpha_2 * sqrt(...) + z_beta * sqrt(...), in 1/NumUnit
BracketedSum(za, zb, sa, sb) ==
    RoundDiv(za * sa + zb * sb, (ZUnit * SqrtUnit) \div NumUnit)

\* the division by the squared difference left out
CeilN_no_division(num, d) == CeilDiv(num * num, NumUnit * NumUnit)

\* lines 99-100: n = num**2 / (p2 - p1)**2; int(math.ceil(n)).
\* d = p2 - p1 in units of 1/ProbUnit; a zero d is ZeroDivisionError
CeilN(num, d) ==
    CeilDiv(num * num, (NumUnit \div ProbUnit) * (NumUnit \div ProbUnit) * d * d)

\* the body of the try block, lines 90-100
sample_size_body(baseline_cr, mde_abs, alpha, power) ==
    LET za == z_alpha_2(alpha)
        zb == z_beta(power)
        p1 == baseline_cr
        p2 == baseline_cr + mde_abs
    IN  IF IsRaise(za) THEN za
        ELSE IF IsRaise(zb) THEN zb
        ELSE IF FeasibilityGuardFails(p1, p2, mde_abs) THEN NoneVal
        ELSE LET sa == SqrtPooled(p1, p2)
                 sb == SqrtUnpooled(p1, p2)
             IN  IF IsRaise(sa) THEN sa
                 ELSE IF IsRaise(sb) THEN sb
                 ELSE IF p2 - p1 = 0 THEN Raise("ZeroDivisionError")
                 ELSE Value(CeilN(BracketedSum(za.val, zb.val, sa.val, sb.val),
                                  p2 - p1))

\* the function without its except clause
sample_size_uncaught(baseline_cr, mde_abs, alpha, power) ==
    sample_size_body(baseline_cr, mde_abs, alpha, power)

\* lines 88-102: try: ... except Exception: return None
sample_size_per_variant(baseline_cr, mde_abs, alpha, power) ==
    LET r == sample_size_body(baseline_cr, mde_abs, alpha, power)
    IN  IF IsRaise(r) THEN NoneVal ELSE r

---------------------------------------------------------------------------
(* Specification SpecSize: calls of sample_size_per_variant.  The first    *)
(* call takes its four arguments from the grids; each later call changes   *)
(* one argument and keeps the other three (one widget of validate_block    *)
(* changed between two runs).                                              *)

BaselineGrid == {-50, 0, 10, 50, 500, 950, 1000}
MdeGrid == {-10, 0, 10, 50, 490, 500, 980}
AlphaGrid == {-50, 0, 1, 50, 1000, 1500, 2000}
PowerGrid == {0, 1, 200, 500, 800, 900, 1000}

SizeArgs == [baseline_cr : BaselineGrid, mde_abs : MdeGrid,
             alpha : AlphaGrid, power : PowerGrid]

CallSampleSize(a) == sample_size_per_variant(a.baseline_cr, a.mde_abs, a.alpha, a.power)

MaxCalls == 2

\* the parts of the state a specification does not use stay as they are here
SizeIdle == ss_in = NoArgs /\ ss_out = Pending /\ ss_prev = NoCall /\ ss_calls = 0
DurIdle == dur_in = NoArgs /\ dur_out = Pending
RubricIdle == rb_in = NoArgs /\ rb_out = Pending
SessionIdle == session_state = <<>> /\ heap = <<>> /\ add_log = <<>>
RowIdle == row_in = NoArgs /\ row_out = Pending /\ form_like = Pending
ValidateIdle == vb_in = NoArgs /\ vb_out = Pending

SizeInit ==
    /\ ss_in \in SizeArgs
    /\ ss_out = Pending
    /\ ss_prev = NoCall
    /\ ss_calls = 0
    /\ DurIdle /\ RubricIdle /\ SessionIdle /\ RowIdle /\ ValidateIdle

FirstCall ==
    /\ ss_out = Pending
    /\ ss_out' = CallSampleSize(ss_in)
    /\ ss_calls' = 1
    /\ UNCHANGED <<ss_in, ss_prev, durVars, rubricVars, sessionVars, rowVars, validateVars>>

NextCall(a) ==
    /\ ss_out # Pending
    /\ ss_calls < MaxCalls
    /\ a # ss_in
    /\ ss_calls' = ss_calls + 1
    /\ ss_prev' = [kind |-> "call", in |-> ss_in, out |-> ss_out]
    /\ ss_in' = a
    /\ ss_out' = CallSampleSize(a)
    /\ UNCHANGED <<durVars, rubricVars, sessionVars, rowVars, validateVars>>

ChangeBaseline == \E b \in BaselineGrid : NextCall([ss_in EXCEPT !.baseline_cr = b])
ChangeMde == \E m \in MdeGrid : NextCall([ss_in EXCEPT !.mde_abs = m])
ChangeAlpha == \E a \in AlphaGrid : NextCall([ss_in EXCEPT !.alpha = a])
ChangePower == \E p \in PowerGrid : NextCall([ss_in EXCEPT !.power = p])

SizeNext == FirstCall \/ ChangeBaseline \/ ChangeMde \/ ChangeAlpha \/ ChangePower

SpecSize == SizeInit /\ [][SizeNext]_vars

---------------------------------------------------------------------------
(* Claims about sample_size_per_variant, checked under SpecSize.           *)

Called == ss_out # Pending
HasPrev == ss_prev # NoCall

\* the argument sets the claims speak of, in the claims' own terms
Infeasible(a) ==
    \/ a.baseline_cr <= 0
    \/ a.baseline_cr >= ProbUnit
    \/ a.mde_abs <= 0
    \/ a.baseline_cr + a.mde_abs < 0
    \/ a.baseline_cr + a.mde_abs > ProbUnit

FeasibleOpen(a) ==
    /\ 0 < a.baseline_cr /\ a.baseline_cr < ProbUnit
    /\ a.mde_abs > 0
    /\ 0 < a.baseline_cr + a.mde_abs /\ a.baseline_cr + a.mde_abs < ProbUnit

QuantilesDefined(a) ==
    /\ 0 < a.alpha /\ a.alpha < 2 * ProbUnit
    /\ 0 < a.power /\ a.power < ProbUnit

QuantilesNonNegative(a) ==
    /\ 0 < a.alpha /\ a.alpha <= ProbUnit
    /\ 2 * a.power >= ProbUnit /\ a.power < ProbUnit

\* C1: whenever baseline_cr <= 0, baseline_cr >= 1, mde_abs <= 0 or
\* baseline_cr + mde_abs lies outside [0,1], the call hands back None (no
\* value, and no exception).
C1_InfeasibleGivesNone ==
    (Called /\ Infeasible(ss_in)) => ss_out = NoneVal

\* C1 witness: an infeasible rate with both quantiles defined, so that the
\* guard itself answered None.
C1_Witness ==
    /\ Called /\ Infeasible(ss_in) /\ QuantilesDefined(ss_in)
    /\ ss_in.baseline_cr = 0 /\ ss_in.mde_abs > 0
    /\ ss_out = NoneVal

\* C2 (as claimed): feasible rates give a value, and any value handed back
\* is a positive integer, at least 1 and never 0.
C2_ValueIsPositive ==
    Called =>
        /\ (FeasibleOpen(ss_in) /\ QuantilesDefined(ss_in)) => IsValue(ss_out)
        /\ IsValue(ss_out) => ss_out.val >= 1

\* C3 (as claimed): with baseline_cr, alpha and power held fixed, a larger
\* feasible mde_abs never gives a larger sample size.
MdePair ==
    /\ Called /\ HasPrev
    /\ ss_prev.in.baseline_cr = ss_in.baseline_cr
    /\ ss_prev.in.alpha = ss_in.alpha
    /\ ss_prev.in.power = ss_in.power
    /\ FeasibleOpen(ss_prev.in) /\ FeasibleOpen(ss_in)
    /\ IsValue(ss_prev.out) /\ IsValue(ss_out)

C3_MonotoneInMde ==
    MdePair =>
        /\ (ss_prev.in.mde_abs <= ss_in.mde_abs) => (ss_out.val <= ss_prev.out.val)
        /\ (ss_in.mde_abs <= ss_prev.in.mde_abs) => (ss_prev.out.val <= ss_out.val)

\* C3 (amended): the same, for 0 < alpha <= 1 and 0.5 <= power < 1, where
\* both quantiles are non-negative.
C3_MonotoneInMde_NonNegQuantiles ==
    (MdePair /\ QuantilesNonNegative(ss_in)) =>
        /\ (ss_prev.in.mde_abs <= ss_in.mde_abs) => (ss_out.val <= ss_prev.out.val)
        /\ (ss_in.mde_abs <= ss_prev.in.mde_abs) => (ss_prev.out.val <= ss_out.val)

\* C3 witness: a larger mde_abs that gave a strictly smaller sample size.
C3_Witness ==
    /\ MdePair /\ QuantilesNonNegative(ss_in)
    /\ ss_prev.in.mde_abs < ss_in.mde_abs
    /\ ss_out.val < ss_prev.out.val

\* C4 (as claimed): with baseline_cr, mde_abs and alpha held fixed, a larger
\* power never gives a smaller sample size, powers below 0.5 included.
PowerPair ==
    /\ Called /\ HasPrev
    /\ ss_prev.in.baseline_cr = ss_in.baseline_cr
    /\ ss_prev.in.mde_abs = ss_in.mde_abs
    /\ ss_prev.in.alpha = ss_in.alpha
    /\ FeasibleOpen(ss_in)
    /\ IsValue(ss_prev.out) /\ IsValue(ss_out)

C4_MonotoneInPower ==
    PowerPair =>
        /\ (ss_prev.in.power <= ss_in.power) => (ss_prev.out.val <= ss_out.val)
        /\ (ss_in.power <= ss_prev.in.power) => (ss_out.val <= ss_prev.out.val)

\* C4 (amended): the same, for 0 < alpha <= 1 and both powers in [0.5, 1).
C4_MonotoneInPower_AtLeastHalf ==
    (PowerPair /\ QuantilesNonNegative(ss_in) /\ QuantilesNonNegative(ss_prev.in)) =>
        /\ (ss_prev.in.power <= ss_in.power) => (ss_prev.out.val <= ss_out.val)
        /\ (ss_in.power <= ss_prev.in.power) => (ss_out.val <= ss_prev.out.val)

\* C4 witness: a larger power, both at least 0.5, that gave a strictly
\* larger sample size.
C4_Witness ==
    /\ PowerPair /\ QuantilesNonNegative(ss_in) /\ QuantilesNonNegative(ss_prev.in)
    /\ ss_prev.in.power < ss_in.power
    /\ ss_prev.out.val < ss_out.val

\* C5: no exception leaves sample_size_per_variant, whatever alpha and
\* power are; where a quantile is undefined (alpha <= 0, alpha >= 2,
\* power <= 0, power >= 1) the result is None.
C5_TotalOverAlphaPower ==
    Called =>
        /\ ~IsRaise(ss_out)
        /\ ~QuantilesDefined(ss_in) => ss_out = NoneVal

\* C5 witness: feasible rates, an undefined quantile, None handed back.
C5_Witness ==
    /\ Called /\ FeasibleOpen(ss_in) /\ ~QuantilesDefined(ss_in)
    /\ ss_out = NoneVal

---------------------------------------------------------------------------
(* estimate_duration_weeks, lines 104-115.  weekly_sessions, variants and  *)
(* sample_per_variant are integers; allocation is in units of 1/AllocUnit  *)
(* (the slider's step, 0.05); the result is in units of 1/WeeksUnit, the   *)
(* two decimal places of round(weeks, 2).                                  *)

AllocUnit == 20
WeeksUnit == 100

RECURSIVE OddPart(_)
OddPart(n) == IF n % 2 = 0 THEN OddPart(n \div 2) ELSE n

\* whether num / den (den > 0) is a binary fraction, hence a double
IsDyadic(num, den) == num % OddPart(den) = 0

\* the guard with variants = 0 let through
DurationGuardFails_zero_variants(weekly_sessions, variants, sample_per_variant) ==
    weekly_sessions <= 0 \/ variants < 0 \/ sample_per_variant <= 0

\* line 106: if weekly_sessions <= 0 or variants <= 0 or sample_per_variant <= 0
DurationGuardFails(weekly_sessions, variants, sample_per_variant) ==
    weekly_sessions <= 0 \/ variants <= 0 \/ sample_per_variant <= 0

\* line 108: total_required = sample_per_variant * variants
total_required(sample_per_variant, variants) == sample_per_variant * variants

\* line 109: effective_weekly = weekly_sessions * allocation, in 1/AllocUnit
effective_weekly(weekly_sessions, allocation) == weekly_sessions * allocation

\* weeks cut off after two decimals where it should be rounded
round2_truncating(total, effective, allocation) ==
    {(total * AllocUnit * WeeksUnit) \div effective}

\* lines 112-113: weeks = total_required / effective_weekly; round(weeks, 2).
\* round() rounds the double it is given to the nearest hundredth.  Off a
\* tie that is the nearest hundredth of the exact quotient.  On a tie of
\* the exact quotient: if allocation and the quotient are binary fractions
\* the double is exact and round() takes the even hundredth; otherwise the
\* double lies a rounding error to one side of the tie and either
\* neighbour can come out.
round2(total, effective, allocation) ==
    LET x == total * AllocUnit * WeeksUnit
        q == x \div effective
        r == x % effective
    IN  IF 2 * r < effective THEN {q}
        ELSE IF 2 * r > effective THEN {q + 1}
        ELSE IF IsDyadic(allocation, AllocUnit) /\ IsDyadic(total * AllocUnit, effective)
             THEN {IF q % 2 = 0 THEN q ELSE q + 1}
             ELSE {q, q + 1}

\* the body of the try block, lines 106-113: the set of possible outcomes
duration_body(weekly_sessions, variants, sample_per_variant, allocation) ==
    IF DurationGuardFails(weekly_sessions, variants, sample_per_variant)
    THEN {NoneVal}
    ELSE LET total == total_required(sample_per_variant, variants)
             effective == effective_weekly(weekly_sessions, allocation)
         IN  IF effective <= 0 THEN {NoneVal}
             ELSE {Value(w) : w \in round2(total, effective, allocation)}

\* lines 104-115: try: ... except Exception: return None
estimate_duration_weeks(weekly_sessions, variants, sample_per_variant, allocation) ==
    {IF IsRaise(o) THEN NoneVal ELSE o :
        o \in duration_body(weekly_sessions, variants, sample_per_variant, allocation)}

---------------------------------------------------------------------------
(* Specification SpecDur: one call of estimate_duration_weeks on arguments *)
(* drawn from the grids.                                                   *)

SessionsGrid == {-100, 0, 1, 8, 40, 1000, 5000}
VariantsGrid == {-1, 0, 1, 2, 3}
SampleGrid == {-5, 0, 1, 107, 500, 8158}
AllocationGrid == {-20, 0, 2, 7, 10, 20}

DurArgs == [weekly_sessions : SessionsGrid, variants : VariantsGrid,
            sample_per_variant : SampleGrid, allocation : AllocationGrid]

DurInit ==
    /\ dur_in \in DurArgs
    /\ dur_out = Pending
    /\ SizeIdle /\ RubricIdle /\ SessionIdle /\ RowIdle /\ ValidateIdle

EstimateDuration ==
    /\ dur_out = Pending
    /\ dur_out' \in estimate_duration_weeks(dur_in.weekly_sessions, dur_in.variants,
                                            dur_in.sample_per_variant, dur_in.allocation)
    /\ UNCHANGED <<dur_in, sizeVars, rubricVars, sessionVars, rowVars, validateVars>>

DurNext == EstimateDuration

SpecDur == DurInit /\ [][DurNext]_vars

---------------------------------------------------------------------------
(* Claims about estimate_duration_weeks, checked under SpecDur.            *)

DurCalled == dur_out # Pending

DurInfeasible(a) ==
    \/ a.weekly_sessions <= 0
    \/ a.variants <= 0
    \/ a.sample_per_variant <= 0
    \/ a.weekly_sessions * a.allocation <= 0

\* C6: whenever weekly_sessions <= 0, variants <= 0, sample_per_variant <= 0
\* or weekly_sessions * allocation <= 0, the call hands back None; so it
\* does for weekly_sessions = 0.
C6_DurationInfeasibleGivesNone ==
    (DurCalled /\ DurInfeasible(dur_in)) => dur_out = NoneVal

\* C6 witness: weekly_sessions = 0 with every other argument positive, and
\* None handed back.
C6_Witness ==
    /\ DurCalled /\ dur_out = NoneVal
    /\ dur_in.weekly_sessions = 0 /\ dur_in.variants > 0
    /\ dur_in.sample_per_variant > 0 /\ dur_in.allocation > 0

\* C7: for arguments that pass the guard the result is a value within half
\* a hundredth of (sample_per_variant * variants) / (weekly_sessions *
\* allocation), i.e. that quotient rounded to 2 decimal places; for
\* weekly_sessions = 1000, variants = 2, sample_per_variant = 500,
\* allocation = 1.0 it is exactly 1.0.
C7_DurationIsRoundedQuotient ==
    (DurCalled /\ ~DurInfeasible(dur_in)) =>
        /\ IsValue(dur_out)
        /\ LET x == dur_in.sample_per_variant * dur_in.variants * AllocUnit * WeeksUnit
               d == dur_in.weekly_sessions * dur_in.allocation
           IN  2 * Abs(dur_out.val * d - x) <= d
        /\ (dur_in = [weekly_sessions |-> 1000, variants |-> 2,
                      sample_per_variant |-> 500, allocation |-> AllocUnit])
              => dur_out.val = WeeksUnit

\* C7 witness: the quotient 8158 * 2 / 5000 = 3.2632, which is no multiple
\* of a hundredth, handed back as 3.26.
C7_Witness ==
    /\ DurCalled
    /\ dur_in = [weekly_sessions |-> 5000, variants |-> 2,
                 sample_per_variant |-> 8158, allocation |-> AllocUnit]
    /\ dur_out = Value(326)

---------------------------------------------------------------------------
(* easier_total, lines 82-83, over EASIER_COMPONENTS, line 62.  A Python   *)
(* dict is a function whose domain is its set of keys.                     *)

EASIER_COMPONENTS ==
    <<"Evidence", "Alignment", "Speed", "Impact", "Effort", "Reality">>

\* dict.get(k, default)
dict_get(d, k, default) == IF k \in DOMAIN d THEN d[k] ELSE default

\* int(x) for x an int, which the rubric scores are (Dict[str, int])
int_of(x) == x

RECURSIVE SumOver(_, _, _)
\* sum(int(easier.get(k, 0)) for k in keys[i..])
SumOver(easier, keys, i) ==
    IF i > Len(keys) THEN 0
    ELSE int_of(dict_get(easier, keys[i], 0)) + SumOver(easier, keys, i + 1)

RECURSIVE SumValues(_, _)
SumValues(d, ks) ==
    IF ks = {} THEN 0
    ELSE LET k == CHOOSE x \in ks : TRUE IN d[k] + SumValues(d, ks \ {k})

\* the total taken over whatever keys the mapping holds
easier_total_of_all_keys(easier) == Value(SumValues(easier, DOMAIN easier))

\* lines 82-83: sum(int(easier.get(k, 0)) for k in EASIER_COMPONENTS)
easier_total(easier) == Value(SumOver(easier, EASIER_COMPONENTS, 1))

---------------------------------------------------------------------------
(* Specification SpecRubric: one call of easier_total on a mapping that    *)
(* holds any subset of the six factors and of the keys outside them, each  *)
(* with a score.                                                           *)

ExtraKeys == {"Priority"}
ScoreGrid == {1, 3, 5}
RubricKeys == {EASIER_COMPONENTS[i] : i \in 1..Len(EASIER_COMPONENTS)} \cup ExtraKeys
RubricInputs == UNION {[ks -> ScoreGrid] : ks \in SUBSET RubricKeys}

RubricInit ==
    /\ rb_in \in RubricInputs
    /\ rb_out = Pending
    /\ SizeIdle /\ DurIdle /\ SessionIdle /\ RowIdle /\ ValidateIdle

TotalRubric ==
    /\ rb_out = Pending
    /\ rb_out' = easier_total(rb_in)
    /\ UNCHANGED <<rb_in, sizeVars, durVars, sessionVars, rowVars, validateVars>>

RubricNext == TotalRubric

SpecRubric == RubricInit /\ [][RubricNext]_vars

---------------------------------------------------------------------------
(* Claims about easier_total, checked under SpecRubric.                    *)

SixFactors == {"Evidence", "Alignment", "Speed", "Impact", "Effort", "Reality"}

\* what one factor adds to the total according to the claim
Contribution(d, k) == IF k \in DOMAIN d THEN d[k] ELSE 0

ClaimedTotal(d) ==
    Contribution(d, "Evidence") + Contribution(d, "Alignment")
    + Contribution(d, "Speed") + Contribution(d, "Impact")
    + Contribution(d, "Effort") + Contribution(d, "Reality")

\* C8: easier_total hands back (never an error) the sum over exactly the
\* six factors, an absent factor counting 0 and any other key nothing; the
\* empty mapping gives 0 and all six factors at 5 give 30.
C8_RubricTotal ==
    (rb_out # Pending) =>
        /\ rb_out = Value(ClaimedTotal(rb_in))
        /\ (DOMAIN rb_in = {}) => rb_out = Value(0)
        /\ (DOMAIN rb_in = SixFactors /\ \A k \in SixFactors : rb_in[k] = 5)
              => rb_out = Value(30)

\* C8 witness: a mapping that lacks a factor and holds a key outside the
\* six, totalled to the sum of the five factors it has.
C8_Witness ==
    /\ rb_out # Pending
    /\ DOMAIN rb_in = (SixFactors \ {"Reality"}) \cup {"Priority"}
    /\ \A k \in DOMAIN rb_in : rb_in[k] = 5
    /\ rb_out = Value(25)

---------------------------------------------------------------------------
(* Python values of the session model.  A str is its sequence of           *)
(* characters.  A float is in units of 1/ProbUnit.  Lists and dicts are    *)
(* objects of the heap, held by reference: whoever holds the reference     *)
(* sees every later change of the object.                                  *)

PyNone == [t |-> "NoneType"]
PyStr(chars) == [t |-> "str", v |-> chars]
PyInt(n) == [t |-> "int", v |-> n]
PyFloat(x) == [t |-> "float", v |-> x]
PyBool(b) == [t |-> "bool", v |-> b]
PyRef(id) == [t |-> "ref", v |-> id]
PyList(items) == [t |-> "list", items |-> items]
PyDict(items) == [t |-> "dict", items |-> items]
EmptyStr == PyStr(<<>>)

\* the object a value stands for: the heap object behind a reference
Deref(h, x) == IF x.t = "ref" THEN h[x.v] ELSE x

\* bool(x), for the x the form holds
Truthy(h, x) ==
    CASE x.t = "NoneType" -> FALSE
      [] x.t = "str" -> x.v # <<>>
      [] x.t = "int" -> x.v # 0
      [] x.t = "float" -> x.v # 0
      [] x.t = "bool" -> x.v
      [] x.t = "ref" -> Deref(h, x).items # <<>>
      [] OTHER -> x.items # <<>>

\* form_data.get(key, default), form_data a reference to a dict
form_get(h, fd, key, default) == dict_get(h[fd].items, key, default)

\* form_data.get(key) with the `or ""` left out
form_get_keeping_falsy(h, fd, key) == form_get(h, fd, key, EmptyStr)

\* form_data.get(key) or ""
form_get_or_empty(h, fd, key) ==
    LET x == form_get(h, fd, key, PyNone)
    IN  IF Truthy(h, x) THEN x ELSE EmptyStr

RECURSIVE str_join(_, _)
\* sep.join(items), items a sequence of str
str_join(sep, items) ==
    IF items = <<>> THEN <<>>
    ELSE IF Len(items) = 1 THEN items[1].v
    ELSE items[1].v \o sep \o str_join(sep, Tail(items))

\* the list put into the row as it is, the join left out
unjoined_cell(h, fd, key) == form_get(h, fd, key, PyList(<<>>))

\* lines 124 and 137: ", ".join(form_data.get(key, []))
joined_cell(h, fd, key) ==
    PyStr(str_join(<<",", " ">>, Deref(h, form_get(h, fd, key, PyList(<<>>))).items))

\* lines 129-134: form_data.get("easier", {}).get(comp, "")
easier_cell(h, fd, comp) ==
    LET e == Deref(h, form_get(h, fd, "easier", PyDict(<<>>))).items
    IN  IF comp \in DOMAIN e THEN PyInt(e[comp]) ELSE EmptyStr

Col(k, v) == [k |-> k, v |-> v]

\* lines 117-145.  The row is a new dict: its keys in the order written,
\* each with the value computed for it.
to_catalog_row(h, fd) ==
    LET easier_sum ==
            easier_total(Deref(h, form_get(h, fd, "easier", PyDict(<<>>))).items)
    IN  << Col("Test ID", form_get(h, fd, "test_id", EmptyStr)),
           Col("Test Name", form_get(h, fd, "test_name", EmptyStr)),
           Col("Hypothesis", form_get(h, fd, "hypothesis", EmptyStr)),
           Col("Primary KPI", form_get(h, fd, "primary_kpi", EmptyStr)),
           Col("Secondary KPIs", joined_cell(h, fd, "secondary_kpis")),
           Col("Baseline Traffic (Weekly)", form_get_or_empty(h, fd, "weekly_sessions")),
           Col("Current Conversion Rate", form_get_or_empty(h, fd, "baseline_cr")),
           Col("Baseline Sample Size", form_get_or_empty(h, fd, "baseline_sample_size")),
           Col("Audience / Placement", form_get(h, fd, "audience_placement", EmptyStr)),
           Col("EASIER - Evidence", easier_cell(h, fd, "Evidence")),
           Col("EASIER - Alignment", easier_cell(h, fd, "Alignment")),
           Col("EASIER - Speed", easier_cell(h, fd, "Speed")),
           Col("EASIER - Impact", easier_cell(h, fd, "Impact")),
           Col("EASIER - Effort", easier_cell(h, fd, "Effort")),
           Col("EASIER - Reality", easier_cell(h, fd, "Reality")),
           Col("EASIER Total", PyInt(easier_sum.val)),
           Col("Notes", form_get(h, fd, "notes", EmptyStr)),
           Col("Test Type", joined_cell(h, fd, "test_types")),
           Col("Funnel Stage", form_get(h, fd, "funnel_stage", EmptyStr)),
           Col("Owner", form_get(h, fd, "owner", EmptyStr)),
           Col("Status", form_get(h, fd, "status", EmptyStr)),
           Col("Start", form_get(h, fd, "start_date", EmptyStr)),
           Col("End", form_get(h, fd, "end_date", EmptyStr)),
           Col("Page URL(s)", form_get(h, fd, "page_urls", EmptyStr)),
           Col("Variant Summary", form_get(h, fd, "variant_summary", EmptyStr)) >>

\* how a row reads now: every cell with the object behind it
RowView(h, row) == [i \in 1..Len(row) |-> Col(row[i].k, Deref(h, row[i].v))]

---------------------------------------------------------------------------
(* st.session_state and init_session, lines 74-80.                         *)

HasKey(s, key) == key \in DOMAIN s

\* session_state.key = value
SetKey(s, key, value) == [k \in DOMAIN s \cup {key} |-> IF k = key THEN value ELSE s[k]]

\* init_session with the catalog set on every run
init_session_resetting(s) ==
    LET s1 == SetKey(s, "catalog", <<>>)
        s2 == IF HasKey(s1, "idea_builder_output") THEN s1
              ELSE SetKey(s1, "idea_builder_output", PyNone)
    IN  IF HasKey(s2, "selected_row_idx") THEN s2
        ELSE SetKey(s2, "selected_row_idx", PyNone)

\* lines 74-80
init_session(s) ==
    LET s1 == IF HasKey(s, "catalog") THEN s ELSE SetKey(s, "catalog", <<>>)
        s2 == IF HasKey(s1, "idea_builder_output") THEN s1
              ELSE SetKey(s1, "idea_builder_output", PyNone)
    IN  IF HasKey(s2, "selected_row_idx") THEN s2
        ELSE SetKey(s2, "selected_row_idx", PyNone)

\* lines 187-189: row = to_catalog_row(form_data); catalog.append(row)
add_to_catalog(s, h, fd) ==
    SetKey(s, "catalog", Append(s["catalog"], to_catalog_row(h, fd)))

---------------------------------------------------------------------------
(* validate_block, lines 336-363, with its own widgets at their defaults:  *)
(* 2 variants, alpha 0.05, power 0.8, relative lift 10 %, allocation 1.0.  *)

DefaultVariants == 2
DefaultAlpha == 50
DefaultPower == 800
DefaultRelativeLift == 10
DefaultAllocation == AllocUnit

\* line 86: baseline_cr * (relative_lift_pct / 100.0)
mde_from_relative(baseline_cr, relative_lift_pct) ==
    RoundDiv(baseline_cr * relative_lift_pct, 100)

\* the strings the results hold, lines 354-361.  All numbers here are
\* at least 0.

DigitChars == <<"0", "1", "2", "3", "4", "5", "6", "7", "8", "9">>

RECURSIVE Digits(_)
\* str(n), n an int
Digits(n) == IF n < 10 THEN <<DigitChars[n + 1]>>
             ELSE Digits(n \div 10) \o <<DigitChars[(n % 10) + 1]>>

\* n in three digits, zeros in front
ThreeDigits(n) ==
    <<DigitChars[(n \div 100) + 1], DigitChars[((n \div 10) % 10) + 1],
      DigitChars[(n % 10) + 1]>>

\* f"{x:.3f}", x in units of 1/ProbUnit
format_3f(x) == PyStr(Digits(x \div ProbUnit) \o <<".">> \o ThreeDigits(x % ProbUnit))

\* f"{x:.2f}", x in units of 1/ProbUnit and a whole number of hundredths,
\* as the step of the power widget makes it (line 341)
format_2f(x) ==
    LET c == RoundDiv(x * 100, ProbUnit)
    IN  PyStr(Digits(c \div 100)
              \o <<".", DigitChars[((c \div 10) % 10) + 1], DigitChars[(c % 10) + 1]>>)

RECURSIVE Grouped(_)
Grouped(n) == IF n < 1000 THEN Digits(n)
              ELSE Grouped(n \div 1000) \o <<",">> \o ThreeDigits(n % 1000)

\* f"{n:,}", n an int
format_grouped(n) == PyStr(Grouped(n))

\* f"{weeks}", weeks a float of at most two decimals in units of
\* 1/WeeksUnit: the shortest decimal, with one decimal at least
format_float(w) ==
    LET whole == Digits(w \div WeeksUnit)
        d1 == DigitChars[((w \div 10) % 10) + 1]
        d2 == DigitChars[(w % 10) + 1]
    IN  PyStr(whole \o <<".">> \o (IF w % 10 = 0 THEN <<d1>> ELSE <<d1, d2>>))

Dash == PyStr(<<"-">>)

\* the widgets of validate_block, lines 339-350
DefaultWidgets ==
    [ variants |-> DefaultVariants, alpha |-> DefaultAlpha, power |-> DefaultPower,
      mde_input_mode |-> "Relative % lift", allocation |-> DefaultAllocation,
      rel |-> DefaultRelativeLift, mde_abs |-> 10 ]

\* line 352: n_per_variant or 0, with 1 where the 0 belongs
n_or_1(n_per_variant) ==
    IF IsValue(n_per_variant) /\ n_per_variant.val # 0 THEN n_per_variant.val ELSE 1

\* line 352: n_per_variant or 0
n_or_0(n_per_variant) ==
    IF IsValue(n_per_variant) /\ n_per_variant.val # 0 THEN n_per_variant.val ELSE 0

\* lines 345-363: the ways one run of validate_block can end, widgets as
\* given: an exception of a call it makes, which it does not catch, or the
\* results, with the two estimates they were made from (the duration is
\* the one place with more than one possible outcome)
validate_block_run(h, fd, widgets) ==
    LET baseline_cr == form_get(h, fd, "baseline_cr", PyFloat(0)).v
        weekly_sessions == form_get(h, fd, "weekly_sessions", PyInt(0)).v
        mde_abs == IF widgets.mde_input_mode = "Relative % lift"
                   THEN mde_from_relative(baseline_cr, widgets.rel)
                   ELSE widgets.mde_abs
        n_per_variant ==
            sample_size_per_variant(baseline_cr, mde_abs, widgets.alpha, widgets.power)
    IN  IF IsRaise(n_per_variant) THEN {n_per_variant}
        ELSE
        { Value([ n_per_variant |-> n_per_variant,
                  weeks |-> weeks,
                  results |->
                      ("Baseline CR" :> format_3f(baseline_cr))
                      @@ ("MDE (absolute)" :> format_3f(mde_abs))
                      @@ ("Alpha" :> format_3f(widgets.alpha))
                      @@ ("Power" :> format_2f(widgets.power))
                      @@ ("Variants" :> PyInt(widgets.variants))
                      @@ ("Sample Size per Variant" :>
                             IF IsValue(n_per_variant) /\ n_per_variant.val # 0
                             THEN format_grouped(n_per_variant.val) ELSE Dash)
                      @@ ("Est. Duration (weeks)" :>
                             IF IsValue(weeks) THEN format_float(weeks.val) ELSE Dash)
                      @@ ("Weekly Sessions (effective)" :>
                             format_grouped((weekly_sessions * widgets.allocation) \div AllocUnit)) ]) :
          weeks \in estimate_duration_weeks(weekly_sessions, widgets.variants,
                                            n_or_0(n_per_variant), widgets.allocation) }

\* lines 345-362 with the widgets untouched: the set of results one run
\* can attach
validate_block(h, fd) ==
    {o.val.results : o \in {r \in validate_block_run(h, fd, DefaultWidgets) : IsValue(r)}}

---------------------------------------------------------------------------
(* Specification Spec: one browser session.  The live specification is the *)
(* dict form_data with the list and dict objects it refers to.  The code   *)
(* builds that dict anew from the widgets on every run (lines 311-334) and *)
(* changes it in place when a result is attached (lines 378, 404); the     *)
(* model keeps one object and makes every edit in place, the harsher case  *)
(* for anything that would share structure with it.  Each action is one    *)
(* run of main(), lines 468-484: init_session, then the page.  The edits   *)
(* modelled are one scalar field (the Test ID), one multiselect (the       *)
(* secondary KPIs; the test types go through the same join, line 137, and  *)
(* stay as the form first builds them) and one rubric score.               *)

LiveSpec == "form_data"

PRIMARY_KPI_DEFAULT == <<"R", "T", "A", " ", "F", "o", "r", "m", " ", "C", "o", "m", "p", "l", "e", "t", "e", "s", " ", "(", "L", "e", "a", "d", " ", "F", "o", "r", "m", " ", "S", "u", "b", "m", "i", "t", "s", ")">>
FUNNEL_STAGE_DEFAULT == <<"C", "o", "n", "v", "e", "r", "s", "i", "o", "n">>
STATUS_DEFAULT == <<"P", "r", "o", "p", "o", "s", "e", "d">>

\* the values the modelled edits choose from
TestIds == {<<>>, <<"T", "1">>}
KpiChoices == {<<"B", "o", "u", "n", "c", "e", " ", "R", "a", "t", "e">>}
ScoredComponents == {"Evidence"}
ScoreChoices == {3, 5}

\* lines 300-306: the labels of the Ready for Dev checklist, by position
CheckLabels == 1..5

MaxCatalog == 2

\* lines 311-333: the dict create_test_form returns for an untouched form
InitialForm ==
    [ test_id |-> EmptyStr,
      test_name |-> EmptyStr,
      hypothesis |-> EmptyStr,
      primary_kpi |-> PyStr(PRIMARY_KPI_DEFAULT),
      secondary_kpis |-> PyRef("secondary_kpis"),
      weekly_sessions |-> PyInt(0),
      baseline_cr |-> PyFloat(0),
      baseline_sample_size |-> PyInt(0),
      funnel_stage |-> PyStr(FUNNEL_STAGE_DEFAULT),
      page_urls |-> EmptyStr,
      audience_placement |-> EmptyStr,
      test_types |-> PyRef("test_types"),
      variant_summary |-> EmptyStr,
      easier |-> PyRef("easier"),
      notes |-> EmptyStr,
      owner |-> EmptyStr,
      status |-> PyStr(STATUS_DEFAULT),
      ready_for_dev |-> PyBool(FALSE),
      ready_checks |-> PyRef("ready_checks"),
      start_date |-> EmptyStr,
      end_date |-> EmptyStr ]

\* lines 285-288: every factor's slider at its default, 3
InitialEasier ==
    [k \in {EASIER_COMPONENTS[i] : i \in 1..Len(EASIER_COMPONENTS)} |-> 3]

\* lines 307-310: every box of the checklist unticked
InitialChecks == [i \in CheckLabels |-> PyBool(FALSE)]

InitialHeap ==
    [ form_data |-> PyDict(InitialForm),
      secondary_kpis |-> PyList(<<>>),
      test_types |-> PyList(<<>>),
      easier |-> PyDict(InitialEasier),
      ready_checks |-> PyDict(InitialChecks) ]

Init ==
    /\ session_state = <<>>
    /\ heap = InitialHeap
    /\ add_log = <<>>
    /\ SizeIdle /\ DurIdle /\ RubricIdle /\ RowIdle /\ ValidateIdle

Others == <<sizeVars, durVars, rubricVars, rowVars, validateVars>>

\* form_data[key] = value, in place
SetField(h, fd, key, value) ==
    [h EXCEPT ![fd] = PyDict(SetKey(h[fd].items, key, value))]

Without(items, x) == SelectSeq(items, LAMBDA y : y # x)
Holds(items, x) == \E i \in 1..Len(items) : items[i] = x

\* line 263: another Test ID typed into the form
SetTestId ==
    \E v \in TestIds :
        /\ heap' = SetField(heap, LiveSpec, "test_id", PyStr(v))
        /\ session_state' = init_session(session_state)
        /\ UNCHANGED <<add_log, Others>>

\* lines 271-272: a secondary KPI picked in the multiselect
SelectKpi ==
    \E k \in KpiChoices :
        /\ ~Holds(heap["secondary_kpis"].items, PyStr(k))
        /\ heap' = [heap EXCEPT !["secondary_kpis"] = PyList(Append(@.items, PyStr(k)))]
        /\ session_state' = init_session(session_state)
        /\ UNCHANGED <<add_log, Others>>

\* lines 271-272: a secondary KPI removed from the multiselect
DeselectKpi ==
    \E k \in KpiChoices :
        /\ Holds(heap["secondary_kpis"].items, PyStr(k))
        /\ heap' = [heap EXCEPT !["secondary_kpis"] = PyList(Without(@.items, PyStr(k)))]
        /\ session_state' = init_session(session_state)
        /\ UNCHANGED <<add_log, Others>>

\* lines 286-288: easier_scores[comp] = the slider's new value
SetScore ==
    \E comp \in ScoredComponents, v \in ScoreChoices :
        /\ heap["easier"].items[comp] # v
        /\ heap' = [heap EXCEPT !["easier"] = PyDict([@.items EXCEPT ![comp] = v])]
        /\ session_state' = init_session(session_state)
        /\ UNCHANGED <<add_log, Others>>

\* lines 376-379: the Validate button of the Create Test page
ValidateAndEstimate ==
    \E power_results \in validate_block(heap, LiveSpec) :
        /\ heap' = SetField(heap, LiveSpec, "power", PyDict(power_results))
        /\ session_state' =
              SetKey(init_session(session_state), "last_form_data", PyRef(LiveSpec))
        /\ UNCHANGED <<add_log, Others>>

\* lines 383-384: the Add to Catalog button
AddToCatalog ==
    LET s == init_session(session_state)
        row == to_catalog_row(heap, LiveSpec)
    IN  /\ Len(s["catalog"]) < MaxCatalog
        /\ session_state' = add_to_catalog(s, heap, LiveSpec)
        /\ add_log' = Append(add_log, RowView(heap, row))
        /\ UNCHANGED <<heap, Others>>

\* lines 386-392: the Download as Word button; export_word_doc only reads
DownloadWord ==
    /\ session_state' = init_session(session_state)
    /\ UNCHANGED <<heap, add_log, Others>>

\* lines 397-404: the Validate page
ValidatePage ==
    LET s == init_session(session_state)
    IN  /\ session_state' = s
        /\ IF ~HasKey(s, "last_form_data")
           THEN heap' = heap
           ELSE \E power_results \in validate_block(heap, s["last_form_data"].v) :
                   heap' = SetField(heap, s["last_form_data"].v, "power",
                                    PyDict(power_results))
        /\ UNCHANGED <<add_log, Others>>

\* lines 406-416: the Catalog & Export page; catalog_df and both downloads
\* only read the catalog
CatalogPage ==
    /\ session_state' = init_session(session_state)
    /\ UNCHANGED <<heap, add_log, Others>>

\* lines 418-454: Export Selected Row; form_like is built from a copy of
\* the row and handed to export_word_doc
ExportSelectedRow ==
    LET s == init_session(session_state)
    IN  /\ Len(s["catalog"]) > 0
        /\ \E idx \in 0..(Len(s["catalog"]) - 1) : session_state' = s
        /\ UNCHANGED <<heap, add_log, Others>>

\* lines 456-466: the Admin page
AdminPage ==
    /\ session_state' = init_session(session_state)
    /\ UNCHANGED <<heap, add_log, Others>>

Next ==
    \/ SetTestId \/ SelectKpi \/ DeselectKpi
    \/ SetScore \/ ValidateAndEstimate \/ AddToCatalog \/ DownloadWord
    \/ ValidatePage \/ CatalogPage \/ ExportSelectedRow \/ AdminPage

Spec == Init /\ [][Next]_vars

---------------------------------------------------------------------------
(* Claims about the session catalog, checked under Spec.                   *)

Catalog == IF HasKey(session_state, "catalog") THEN session_state["catalog"] ELSE <<>>

IsPrefix(a, b) == Len(a) <= Len(b) /\ \A i \in 1..Len(a) : a[i] = b[i]

Cell(row, k) == row[CHOOSE i \in 1..Len(row) : row[i].k = k].v

\* C9: the catalog is exactly the rows of the add_to_catalog calls made so
\* far, in call order (N calls, N rows), and no step of the session removes,
\* reorders or replaces a row: the catalog before a step is a prefix of the
\* catalog after it.
C9_CatalogAppendOnly ==
    /\ [](/\ Len(Catalog) = Len(add_log)
          /\ \A i \in 1..Len(add_log) : Catalog[i] = add_log[i])
    /\ [][IsPrefix(Catalog, Catalog')]_vars

\* C9 witness: two rows with the same Test ID in the catalog, the second
\* appended after the first, with a validation run stored in the session.
C9_Witness ==
    /\ Len(Catalog) = 2
    /\ Cell(Catalog[1], "Test ID") = PyStr(<<"T", "1">>)
    /\ Cell(Catalog[2], "Test ID") = Cell(Catalog[1], "Test ID")
    /\ Catalog[1] # Catalog[2]
    /\ HasKey(session_state, "last_form_data")

\* C10: every row of the catalog reads, column by column, as it read when
\* add_to_catalog appended it, whatever has been changed in the live
\* specification since.
C10_RowsAreDetached ==
    \A i \in 1..Len(Catalog) :
        i <= Len(add_log) /\ RowView(heap, Catalog[i]) = add_log[i]

\* C10 witness: a row is in the catalog and the live specification now
\* differs from it in its Test ID, its secondary KPIs and a rubric score
\* (hence the total), with a power result attached.
C10_Witness ==
    /\ Len(Catalog) >= 1 /\ Len(add_log) >= 1
    /\ LET was == Catalog[1]
           is == to_catalog_row(heap, LiveSpec)
       IN  /\ "power" \in DOMAIN heap[LiveSpec].items
           /\ Cell(was, "Test ID") # Cell(is, "Test ID")
           /\ Cell(was, "Secondary KPIs") # Cell(is, "Secondary KPIs")
           /\ Cell(was, "EASIER - Evidence") # Cell(is, "EASIER - Evidence")
           /\ Cell(was, "EASIER Total") # Cell(is, "EASIER Total")

---------------------------------------------------------------------------
(* to_catalog_row as a function of the specification handed to it, and the *)
(* lists catalog_page rebuilds from a row (lines 420-448).  Specification  *)
(* SpecRow hands to_catalog_row one specification and then rebuilds the    *)
(* lists from the row.                                                     *)

\* lines 34-45
SECONDARY_KPIS ==
    <<<<"R", "T", "A", " ", "F", "o", "r", "m", " ", "C", "o", "m", "p", "l", "e", "t", "e", "s", " ", "(", "L", "e", "a", "d", " ", "F", "o", "r", "m", " ", "S", "u", "b", "m", "i", "t", "s", ")">>,
       <<"R", "T", "A", " ", "F", "o", "r", "m", " ", "S", "t", "a", "r", "t", "s", " ", "(", "L", "e", "a", "d", " ", "F", "o", "r", "m", " ", "S", "t", "a", "r", "t", "s", ")">>,
       <<"C", "T", "A", " ", "C", "l", "i", "c", "k", "-", "t", "h", "r", "o", "u", "g", "h", " ", "R", "a", "t", "e">>,
       <<"P", "a", "g", "e", "-", "t", "o", "-", "F", "o", "r", "m", " ", "C", "T", "R">>,
       <<"B", "o", "u", "n", "c", "e", " ", "R", "a", "t", "e">>,
       <<"T", "i", "m", "e", " ", "t", "o", " ", "F", "i", "r", "s", "t", " ", "I", "n", "p", "u", "t">>,
       <<"S", "c", "r", "o", "l", "l", " ", "D", "e", "p", "t", "h", " ", "5", "0", "%", "+">>,
       <<"P", "h", "o", "n", "e", " ", "C", "l", "i", "c", "k", "s">>,
       <<"P", "a", "g", "e", "v", "i", "e", "w", "s">>,
       <<"A", "v", "g", ".", " ", "T", "i", "m", "e", " ", "o", "n", " ", "P", "a", "g", "e">> >>

\* lines 47-58
TEST_TYPES ==
    <<<<"C", "o", "p", "y", " ", "&", " ", "M", "e", "s", "s", "a", "g", "i", "n", "g">>,
       <<"C", "T", "A", " ", "S", "t", "y", "l", "i", "n", "g">>,
       <<"F", "o", "r", "m", " ", "F", "r", "i", "c", "t", "i", "o", "n">>,
       <<"L", "a", "y", "o", "u", "t", " ", "/", " ", "I", "n", "f", "o", "r", "m", "a", "t", "i", "o", "n", " ", "H", "i", "e", "r", "a", "r", "c", "h", "y">>,
       <<"S", "o", "c", "i", "a", "l", " ", "P", "r", "o", "o", "f">>,
       <<"U", "r", "g", "e", "n", "c", "y", " ", "/", " ", "S", "c", "a", "r", "c", "i", "t", "y">>,
       <<"M", "e", "d", "i", "a", " ", "(", "I", "m", "a", "g", "e", "s", "/", "V", "i", "d", "e", "o", ")">>,
       <<"N", "a", "v", "i", "g", "a", "t", "i", "o", "n", " ", "/", " ", "I", "A">>,
       <<"T", "r", "u", "s", "t", " ", "&", " ", "S", "e", "c", "u", "r", "i", "t", "y">>,
       <<"P", "e", "r", "f", "o", "r", "m", "a", "n", "c", "e", " ", "/", " ", "U", "X">> >>

\* the characters str.strip() removes
Whitespace == {" ", "\t", "\n", "\r", "\f"}

RECURSIVE lstrip(_)
lstrip(chars) ==
    IF chars # <<>> /\ Head(chars) \in Whitespace THEN lstrip(Tail(chars)) ELSE chars

RECURSIVE rstrip(_)
rstrip(chars) ==
    IF chars # <<>> /\ chars[Len(chars)] \in Whitespace
    THEN rstrip(SubSeq(chars, 1, Len(chars) - 1)) ELSE chars

\* x.strip() that strips nothing
strip_nothing(chars) == chars

\* x.strip()
strip(chars) == rstrip(lstrip(chars))

RECURSIVE split(_, _)
\* chars.split(sep), sep one character: the pieces between the separators,
\* the empty ones too
split(chars, sep) ==
    IF \A i \in 1..Len(chars) : chars[i] # sep THEN <<chars>>
    ELSE LET i == CHOOSE j \in 1..Len(chars) :
                     chars[j] = sep /\ \A k \in 1..(j - 1) : chars[k] # sep
         IN  <<SubSeq(chars, 1, i - 1)>> \o split(SubSeq(chars, i + 1, Len(chars)), sep)

\* row.get(key, default), row a row of the catalog
row_get(row, key, default) ==
    IF \E i \in 1..Len(row) : row[i].k = key
    THEN row[CHOOSE i \in 1..Len(row) : row[i].k = key].v
    ELSE default

RECURSIVE StrippedNonEmpty(_)
\* [x.strip() for x in pieces if x.strip()]
StrippedNonEmpty(pieces) ==
    IF pieces = <<>> THEN <<>>
    ELSE (IF strip(Head(pieces)) # <<>> THEN <<PyStr(strip(Head(pieces)))>> ELSE <<>>)
         \o StrippedNonEmpty(Tail(pieces))

\* lines 426 and 440:
\* [x.strip() for x in (row.get(key, "") or "").split(",") if x.strip()]
resplit(row, key) ==
    LET cell == row_get(row, key, EmptyStr)
        text == IF Truthy(<<>>, cell) THEN cell ELSE EmptyStr
    IN  StrippedNonEmpty(split(text.v, ","))

\* the multiselects of the form and the options of each
MultiFields == {"secondary_kpis", "test_types"}
OptionsOf(field) == IF field = "secondary_kpis" THEN SECONDARY_KPIS ELSE TEST_TYPES
ColumnOf(field) == IF field = "secondary_kpis" THEN "Secondary KPIs" ELSE "Test Type"

MaxSelected == 2

\* what a multiselect hands back: options of its list, each at most once,
\* in the order selected
Selections(options) ==
    { sel \in UNION { [1..n -> 1..Len(options)] : n \in 0..MaxSelected } :
          \A i, j \in 1..Len(sel) : i # j => sel[i] # sel[j] }

Selected(options, sel) == [i \in 1..Len(sel) |-> PyStr(options[sel[i]])]

\* the untouched form with one multiselect filled in
ListInputs ==
    UNION { { [InitialHeap EXCEPT ![field] = PyList(Selected(OptionsOf(field), sel))] :
                  sel \in Selections(OptionsOf(field)) } : field \in MultiFields }

\* lines 311-333 for a form with every widget filled in
FilledForm ==
    [ test_id |-> PyStr(<<"T", "1">>),
      test_name |-> PyStr(<<"S", "h", "o", "r", "t", " ", "f", "o", "r", "m">>),
      hypothesis |-> PyStr(<<"F", "e", "w", "e", "r", " ", "f", "i", "e", "l", "d", "s", ",", " ", "m", "o", "r", "e", " ", "l", "e", "a", "d", "s">>),
      primary_kpi |-> PyStr(SECONDARY_KPIS[3]),
      secondary_kpis |-> PyRef("secondary_kpis"),
      weekly_sessions |-> PyInt(5000),
      baseline_cr |-> PyFloat(50),
      baseline_sample_size |-> PyInt(1200),
      funnel_stage |-> PyStr(FUNNEL_STAGE_DEFAULT),
      page_urls |-> PyStr(<<"/", "q", "u", "o", "t", "e", ",", " ", "/", "c", "o", "n", "t", "a", "c", "t">>),
      audience_placement |-> PyStr(<<"A", "l", "l", " ", "v", "i", "s", "i", "t", "o", "r", "s">>),
      test_types |-> PyRef("test_types"),
      variant_summary |-> PyStr(<<"A", ":", " ", "9", " ", "f", "i", "e", "l", "d", "s", ";", " ", "B", ":", " ", "5", " ", "f", "i", "e", "l", "d", "s">>),
      easier |-> PyRef("easier"),
      notes |-> PyStr(<<"N", "e", "e", "d", "s", " ", "d", "e", "v", " ", "t", "i", "m", "e">>),
      owner |-> PyStr(<<"C", "R", "O", " ", "t", "e", "a", "m">>),
      status |-> PyStr(STATUS_DEFAULT),
      ready_for_dev |-> PyBool(TRUE),
      ready_checks |-> PyRef("ready_checks"),
      start_date |-> PyStr(<<"2", "0", "2", "6", "-", "0", "1", "-", "0", "5">>),
      end_date |-> PyStr(<<"2", "0", "2", "6", "-", "0", "2", "-", "0", "2">>) ]

\* lines 285-288: six sliders moved, each within 1..5
FilledEasier ==
    [k \in {EASIER_COMPONENTS[i] : i \in 1..Len(EASIER_COMPONENTS)} |->
        CASE k = "Evidence" -> 5 [] k = "Alignment" -> 4 [] k = "Speed" -> 1
          [] k = "Impact" -> 2 [] k = "Effort" -> 3 [] OTHER -> 5]

FilledHeap ==
    [ form_data |-> PyDict(FilledForm),
      secondary_kpis |-> PyList(<<PyStr(SECONDARY_KPIS[9]), PyStr(SECONDARY_KPIS[5])>>),
      test_types |-> PyList(<<PyStr(TEST_TYPES[3])>>),
      easier |-> PyDict(FilledEasier),
      ready_checks |-> PyDict([i \in CheckLabels |-> PyBool(TRUE)]) ]

FormFields == DOMAIN InitialForm

\* how many fields may be missing from a specification, or be the only
\* ones present
MaxFew == 2

RECURSIVE UpTo(_, _)
\* the subsets of S of at most n elements
UpTo(S, n) ==
    IF n = 0 THEN {{}} ELSE {T \cup {x} : T \in UpTo(S, n - 1), x \in S} \cup {{}}

FieldSubsets == UpTo(FormFields, MaxFew) \cup {FormFields \ M : M \in UpTo(FormFields, MaxFew)}

\* form_data with the fields of present only
WithFields(h, present) ==
    [h EXCEPT ![LiveSpec] = PyDict([k \in present |-> h[LiveSpec].items[k]])]

\* a specification, untouched or filled in, that holds only some fields
PartialInputs ==
    { WithFields(h, present) : h \in {InitialHeap, FilledHeap}, present \in FieldSubsets }

\* a filled-in specification whose rubric holds only some factors
PartialRubricInputs ==
    { [FilledHeap EXCEPT !["easier"] = PyDict([k \in present |-> FilledEasier[k]])] :
          present \in SUBSET DOMAIN FilledEasier }

RowInputs == ListInputs \cup PartialInputs \cup PartialRubricInputs

RowInit ==
    /\ row_in \in RowInputs
    /\ row_out = Pending
    /\ form_like = Pending
    /\ SizeIdle /\ DurIdle /\ RubricIdle /\ SessionIdle /\ ValidateIdle

IsListOfStr(x) == x.t = "list" /\ \A i \in 1..Len(x.items) : x.items[i].t = "str"

\* how a call to_catalog_row(form_data) ends: with the row, or with the
\* exception of a rubric that has no get (line 118) or of a join over
\* something other than a list of str (lines 124, 137)
to_catalog_row_call(h, fd) ==
    IF Deref(h, form_get(h, fd, "easier", PyDict(<<>>))).t # "dict"
    THEN Raise("AttributeError")
    ELSE IF \E key \in MultiFields :
                ~IsListOfStr(Deref(h, form_get(h, fd, key, PyList(<<>>))))
    THEN Raise("TypeError")
    ELSE Value(to_catalog_row(h, fd))

\* row = to_catalog_row(form_data)
SerializeRow ==
    /\ row_out = Pending
    /\ row_out' = to_catalog_row_call(row_in, LiveSpec)
    /\ UNCHANGED <<row_in, form_like, sizeVars, durVars, rubricVars, sessionVars, validateVars>>

\* lines 426 and 440: the two lists of form_like
RebuildLists ==
    /\ IsValue(row_out)
    /\ form_like = Pending
    /\ form_like' = [secondary_kpis |-> resplit(row_out.val, "Secondary KPIs"),
                     test_types |-> resplit(row_out.val, "Test Type")]
    /\ UNCHANGED <<row_in, row_out, sizeVars, durVars, rubricVars, sessionVars, validateVars>>

RowNext == SerializeRow \/ RebuildLists

SpecRow == RowInit /\ [][RowNext]_vars

\* lines 193-199: the columns of catalog_df for an empty catalog
EmptyCatalogColumns ==
    << "Test ID", "Test Name", "Hypothesis", "Primary KPI", "Secondary KPIs",
       "Baseline Traffic (Weekly)", "Current Conversion Rate", "Baseline Sample Size",
       "Audience / Placement", "EASIER - Evidence", "EASIER - Alignment", "EASIER - Speed",
       "EASIER - Impact", "EASIER - Effort", "EASIER - Reality", "EASIER Total", "Notes",
       "Test Type", "Funnel Stage", "Owner", "Status", "Start", "End", "Page URL(s)",
       "Variant Summary" >>

---------------------------------------------------------------------------
(* Claims about the joined columns, checked under SpecRow.                 *)

\* the list the specification holds under a multiselect field
ListOf(h, field) == Deref(h, form_get(h, LiveSpec, field, PyList(<<>>))).items

RECURSIVE StartOf(_, _)
\* where the i-th value starts in a text that holds the values in order
\* with ", " between them
StartOf(items, i) ==
    IF i = 1 THEN 1 ELSE StartOf(items, i - 1) + Len(items[i - 1].v) + 2

IsCommaJoined(text, items) ==
    /\ Len(text) = IF items = <<>> THEN 0
                   ELSE StartOf(items, Len(items)) + Len(items[Len(items)].v) - 1
    /\ \A i \in 1..Len(items) :
          LET from == StartOf(items, i)
              to == from + Len(items[i].v) - 1
          IN  /\ SubSeq(text, from, to) = items[i].v
              /\ i < Len(items) => text[to + 1] = "," /\ text[to + 2] = " "

\* C11: for every list of secondary KPIs, and every list of test types,
\* chosen from the options of the form, the row's column is one string that
\* holds the values in selection order with ", " between them, and the list
\* catalog_page rebuilds by splitting that string on the comma is the
\* original list, value by value in the original order.
C11_SplitRecoversSelection ==
    \A field \in MultiFields :
        /\ row_out # Pending =>
              /\ IsValue(row_out)
              /\ LET cell == row_get(row_out.val, ColumnOf(field), PyNone)
                 IN  cell.t = "str" /\ IsCommaJoined(cell.v, ListOf(row_in, field))
        /\ form_like # Pending => form_like[field] = ListOf(row_in, field)

\* C11 witness: two secondary KPIs selected against the order of the option
\* list, serialized and rebuilt.
C11_Witness ==
    /\ form_like # Pending
    /\ ListOf(row_in, "secondary_kpis") =
          <<PyStr(SECONDARY_KPIS[10]), PyStr(SECONDARY_KPIS[5])>>
    /\ row_get(row_out.val, "Secondary KPIs", PyNone) =
          PyStr(SECONDARY_KPIS[10] \o <<",", " ">> \o SECONDARY_KPIS[5])
    /\ form_like.secondary_kpis = ListOf(row_in, "secondary_kpis")

---------------------------------------------------------------------------
(* Claims about the shape of the row, checked under SpecRow.               *)

\* the specification field each column is read from; the six factor
\* columns and the total are read from the rubric
ColumnSource ==
    [c \in {"Test ID", "Test Name", "Hypothesis", "Primary KPI", "Secondary KPIs",
            "Baseline Traffic (Weekly)", "Current Conversion Rate",
            "Baseline Sample Size", "Audience / Placement", "Notes", "Test Type",
            "Funnel Stage", "Owner", "Status", "Start", "End", "Page URL(s)",
            "Variant Summary"} |->
        CASE c = "Test ID" -> "test_id"
          [] c = "Test Name" -> "test_name"
          [] c = "Hypothesis" -> "hypothesis"
          [] c = "Primary KPI" -> "primary_kpi"
          [] c = "Secondary KPIs" -> "secondary_kpis"
          [] c = "Baseline Traffic (Weekly)" -> "weekly_sessions"
          [] c = "Current Conversion Rate" -> "baseline_cr"
          [] c = "Baseline Sample Size" -> "baseline_sample_size"
          [] c = "Audience / Placement" -> "audience_placement"
          [] c = "Notes" -> "notes"
          [] c = "Test Type" -> "test_types"
          [] c = "Funnel Stage" -> "funnel_stage"
          [] c = "Owner" -> "owner"
          [] c = "Status" -> "status"
          [] c = "Start" -> "start_date"
          [] c = "End" -> "end_date"
          [] c = "Page URL(s)" -> "page_urls"
          [] OTHER -> "variant_summary"]

Factors == {EASIER_COMPONENTS[i] : i \in 1..Len(EASIER_COMPONENTS)}

\* a field is missing, or holds the empty or zero value of its type
MissingOrUnset(h, field) ==
    \/ field \notin DOMAIN h[LiveSpec].items
    \/ ~Truthy(h, h[LiveSpec].items[field])

\* the scores of the specification: those of its rubric, none without one
ScoresOf(h) ==
    IF "easier" \in DOMAIN h[LiveSpec].items THEN Deref(h, h[LiveSpec].items["easier"]).items
    ELSE <<>>

ScoreOrZero(h, comp) == IF comp \in DOMAIN ScoresOf(h) THEN ScoresOf(h)[comp] ELSE 0

IsEmptyStr(x) == x.t = "str" /\ x.v = <<>>

\* C12: whichever fields the specification holds, to_catalog_row hands
\* back a row (it does not raise) of the 25 columns of catalog_df's empty
\* frame, in that order; a column whose field is missing or unset holds
\* the empty string, a factor column whose score is missing holds the empty
\* string, and EASIER Total holds the sum of the six factors' scores, a
\* missing one counting 0.
C12_RowShape ==
    row_out # Pending =>
        /\ IsValue(row_out)
        /\ [i \in 1..Len(row_out.val) |-> row_out.val[i].k] = EmptyCatalogColumns
        /\ \A c \in DOMAIN ColumnSource :
              MissingOrUnset(row_in, ColumnSource[c]) =>
                  IsEmptyStr(row_get(row_out.val, c, PyNone))
        /\ \A comp \in Factors :
              comp \notin DOMAIN ScoresOf(row_in) =>
                  IsEmptyStr(row_get(row_out.val, "EASIER - " \o comp, PyNone))
        /\ row_get(row_out.val, "EASIER Total", PyNone) =
              PyInt(ScoreOrZero(row_in, "Evidence") + ScoreOrZero(row_in, "Alignment")
                    + ScoreOrZero(row_in, "Speed") + ScoreOrZero(row_in, "Impact")
                    + ScoreOrZero(row_in, "Effort") + ScoreOrZero(row_in, "Reality"))

\* C12 witness: a row made from a specification that holds nothing but a
\* zero weekly traffic and a rubric: 25 columns, the traffic column empty,
\* the total that of the rubric.
C12_Witness ==
    /\ IsValue(row_out)
    /\ DOMAIN row_in[LiveSpec].items = {"weekly_sessions", "easier"}
    /\ row_in[LiveSpec].items["weekly_sessions"] = PyInt(0)
    /\ Len(row_out.val) = 25
    /\ IsEmptyStr(row_get(row_out.val, "Baseline Traffic (Weekly)", PyNone))
    /\ IsEmptyStr(row_get(row_out.val, "Test ID", PyNone))
    /\ row_get(row_out.val, "EASIER Total", PyNone) = PyInt(18)

---------------------------------------------------------------------------
(* Specification SpecValidate: one validation run, from the Create Test    *)
(* page or again from the Validate page, on a form and widget values drawn *)
(* from the ranges the widgets allow.                                      *)

\* lines 275-276: weekly sessions, at least 0; conversion rate, 0.0 to 1.0
FormSessions == {0, 100, 5000}
FormBaselines == {0, 1, 50, 500, 1000}

\* lines 339-350: at least 2 variants; alpha 0.001 to 0.2; power 0.5 to
\* 0.99; allocation 0.1 to 1.0; relative lift in percent; absolute MDE
WidgetVariants == {2, 3}
WidgetAlphas == {1, 50, 200}
WidgetPowers == {500, 800, 990}
WidgetAllocations == {2, 10, 20}
WidgetLifts == {10, 100, 400}
WidgetMdes == {10, 50, 500}
MdeModes == {"Relative % lift", "Absolute (delta in CR)"}

WidgetValues ==
    { w \in [variants : WidgetVariants, alpha : WidgetAlphas, power : WidgetPowers,
             mde_input_mode : MdeModes, allocation : WidgetAllocations,
             rel : WidgetLifts \cup {DefaultRelativeLift},
             mde_abs : WidgetMdes \cup {DefaultWidgets.mde_abs}] :
          \* the widget of the mode not chosen is not drawn (lines 346-350)
          IF w.mde_input_mode = "Relative % lift"
          THEN w.rel \in WidgetLifts /\ w.mde_abs = DefaultWidgets.mde_abs
          ELSE w.mde_abs \in WidgetMdes /\ w.rel = DefaultRelativeLift }

\* the form with its two baselines filled in
FormWith(weekly_sessions, baseline_cr) ==
    [InitialHeap EXCEPT ![LiveSpec] =
        PyDict([InitialForm EXCEPT !.weekly_sessions = PyInt(weekly_sessions),
                                   !.baseline_cr = PyFloat(baseline_cr)])]

\* the product baseline_cr * rel / 100 of line 86 is one the units hold
Representable(baseline_cr, w) ==
    w.mde_input_mode = "Relative % lift" => (baseline_cr * w.rel) % 100 = 0

\* what a run starts from.  On the Create Test page the form is as
\* create_test_form built it; on the Validate page it is last_form_data,
\* which holds the result of the earlier run (lines 378-379)
ValidateInputs ==
    UNION { UNION {
        {[page |-> "Create Test", form |-> FormWith(ws, cr), widgets |-> w]}
        \cup {[page |-> "Validate",
               form |-> SetField(FormWith(ws, cr), LiveSpec, "power", PyDict(earlier)),
               widgets |-> w] : earlier \in validate_block(FormWith(ws, cr), LiveSpec)}
        : w \in {x \in WidgetValues : Representable(cr, x)} }
        : ws \in FormSessions, cr \in FormBaselines }

ValidateInit ==
    /\ vb_in \in ValidateInputs
    /\ vb_out = Pending
    /\ SizeIdle /\ DurIdle /\ RubricIdle /\ SessionIdle /\ RowIdle

\* power_results = validate_block(form_data); form_data["power"] =
\* power_results: how the run ends, and the objects as it leaves them
RunAndAttach(h, fd, widgets) ==
    { IF IsRaise(o) THEN o
      ELSE Value([run |-> o.val, form |-> SetField(h, fd, "power", PyDict(o.val.results))]) :
      o \in validate_block_run(h, fd, widgets) }

\* lines 376-378: the Validate button of the Create Test page
ValidateOnCreatePage ==
    /\ vb_in.page = "Create Test"
    /\ vb_out = Pending
    /\ vb_out' \in RunAndAttach(vb_in.form, LiveSpec, vb_in.widgets)
    /\ UNCHANGED <<vb_in, sizeVars, durVars, rubricVars, sessionVars, rowVars>>

\* lines 401-404: the re-run of the Validate page
RerunOnValidatePage ==
    /\ vb_in.page = "Validate"
    /\ vb_out = Pending
    /\ vb_out' \in RunAndAttach(vb_in.form, LiveSpec, vb_in.widgets)
    /\ UNCHANGED <<vb_in, sizeVars, durVars, rubricVars, sessionVars, rowVars>>

ValidateNext == ValidateOnCreatePage \/ RerunOnValidatePage

SpecValidate == ValidateInit /\ [][ValidateNext]_vars

---------------------------------------------------------------------------
(* Claims about a validation run, checked under SpecValidate.              *)

IsDash(x) == x.t = "str" /\ x.v = Dash.v

\* C13: every validation run ends without an exception and attaches its
\* result to the specification; if the run has no sample size per variant
\* it has no duration either and the result shows the dash for both; the
\* result shows a duration only when it shows a sample size.
C13_NoSizeNoDuration ==
    vb_out # Pending =>
        /\ IsValue(vb_out)
        /\ LET run == vb_out.val.run
               size == run.results["Sample Size per Variant"]
               duration == run.results["Est. Duration (weeks)"]
           IN  /\ vb_out.val.form[LiveSpec].items["power"] = PyDict(run.results)
               /\ ~IsValue(run.n_per_variant) =>
                      ~IsValue(run.weeks) /\ IsDash(size) /\ IsDash(duration)
               /\ ~IsDash(duration) => ~IsDash(size)

\* C13 witness: a re-run on the Validate page with weekly traffic, whose
\* lift of 400 % on a baseline of 0.5 puts the variant rate above 1 and so
\* leaves no sample size: the result attached shows the dash for the sample
\* size and for the duration.
C13_Witness ==
    /\ IsValue(vb_out)
    /\ vb_in.page = "Validate"
    /\ vb_in.form[LiveSpec].items["weekly_sessions"] = PyInt(5000)
    /\ vb_in.form[LiveSpec].items["baseline_cr"] = PyFloat(500)
    /\ vb_in.widgets.mde_input_mode = "Relative % lift" /\ vb_in.widgets.rel = 400
    /\ ~IsValue(vb_out.val.run.n_per_variant)
    /\ IsDash(vb_out.val.form[LiveSpec].items["power"].items["Sample Size per Variant"])
    /\ IsDash(vb_out.val.form[LiveSpec].items["power"].items["Est. Duration (weeks)"])

=============================================================================
